---- MODULE Spec2Model ----
(***************************************************************************)
(* scripts/populate_data/populate.py: the seeding script that reads the    *)
(* fixture files ./data/<entity_type>.json and replays every record as an  *)
(* HTTP POST against the API, in the creation order of main().             *)
(*                                                                         *)
(* The program is sequential.  Its state is the position of main()'s loop  *)
(* (i), the document populate_data() has loaded (data) and the position of *)
(* its loop over the items (k).  The environment is the fixture directory  *)
(* (files), the requests the HTTP client was asked to send, each with what  *)
(* came back (calls), and the console (console).  An uncaught exception    *)
(* ends the process (pc = "aborted", error names the exception).           *)
(***************************************************************************)
EXTENDS Integers, Sequences, FiniteSets, TLC

VARIABLES pc, i, data, k, files, calls, console, error

vars == <<pc, i, data, k, files, calls, console, error>>

(***************************************************************************)
(* Bounds of the model.                                                    *)
(***************************************************************************)
\* fixture files that exist in ./data in one run of Spec
MaxFiles == 2
\* records in all the fixture files of one run of Spec together
MaxPosts == 2

(***************************************************************************)
(* Module constants of populate.py.                                        *)
(***************************************************************************)
BASE_URL == "http://localhost:8080/api/v1"

BEARER_TOKEN == "<YOUR_BEARER>"

HEADERS ==
  [Authorization |-> "Bearer " \o BEARER_TOKEN,
   ContentType |-> "application/json"]

ENTITIES_wrong_key ==
  [e \in {"organization", "department", "permission", "role", "group", "user",
          "resource", "policy", "resourceTypes", "attributeGroup"} |->
     CASE e = "organization" -> "/organizations"
       [] e = "department" -> "/departments"
       [] e = "permission" -> "/permissions"
       [] e = "role" -> "/roles"
       [] e = "group" -> "/groups"
       [] e = "user" -> "/users"
       [] e = "resource" -> "/resources"
       [] e = "policy" -> "/policies"
       [] e = "resourceTypes" -> "/resource-types"
       [] e = "attributeGroup" -> "/attribute-groups"]

ENTITIES ==
  [e \in {"organization", "department", "permission", "role", "group", "user",
          "resource", "policy", "resourceType", "attributeGroup"} |->
     CASE e = "organization" -> "/organizations"
       [] e = "department" -> "/departments"
       [] e = "permission" -> "/permissions"
       [] e = "role" -> "/roles"
       [] e = "group" -> "/groups"
       [] e = "user" -> "/users"
       [] e = "resource" -> "/resources"
       [] e = "policy" -> "/policies"
       [] e = "resourceType" -> "/resource-types"
       [] e = "attributeGroup" -> "/attribute-groups"]

creation_order_swapped ==
  <<"organization", "department", "permission", "role", "group", "user",
    "resource", "resourceType", "attributeGroup", "policy">>

creation_order ==
  <<"organization", "department", "permission", "role", "group", "user",
    "resourceType", "attributeGroup", "resource", "policy">>

(***************************************************************************)
(* JSON.  A document on disk or on the wire is text: an object is its      *)
(* members in the order written, a string is its characters, each written  *)
(* raw or as a \uXXXX escape, a number is an integer part, an optional     *)
(* one-digit fraction and an optional exponent (frac, exp = -1: absent).   *)
(* json.load turns the text into Python values (str, int, float, bool and  *)
(* dict, which keeps insertion order); requests.post(json=...) turns the   *)
(* Python value back into text with json.dumps.  A float is held in tenths.*)
(***************************************************************************)
RECURSIVE Pow10(_)
Pow10(n) == IF n <= 0 THEN 1 ELSE 10 * Pow10(n - 1)

Ascii == {"a", "c", "f", "o", "1", "N", "/", "A"}

json_load_value(tok) ==
  CASE tok.t = "string" ->
         [py |-> "str", v |-> [j \in DOMAIN tok.chars |-> tok.chars[j].ch]]
    [] tok.t = "number" /\ tok.frac = -1 /\ tok.exp = -1 ->
         [py |-> "int", v |-> tok.int]
    [] tok.t = "number" /\ ~(tok.frac = -1 /\ tok.exp = -1) ->
         [py |-> "float",
          v |-> (10 * tok.int + (IF tok.frac = -1 THEN 0 ELSE tok.frac))
                  * Pow10(tok.exp)]
    [] tok.t = "literal" ->
         [py |-> "bool", v |-> tok.val]

\* dict[name] = value: a repeated name keeps its first place and takes the
\* last value
dict_set(d, name, value) ==
  IF \E j \in DOMAIN d : d[j].name = name
  THEN [j \in DOMAIN d |->
          IF d[j].name = name THEN [name |-> name, value |-> value] ELSE d[j]]
  ELSE Append(d, [name |-> name, value |-> value])

RECURSIVE json_load_members(_, _)
json_load_members(members, d) ==
  IF members = <<>> THEN d
  ELSE json_load_members(
         Tail(members),
         dict_set(d, Head(members).name, json_load_value(Head(members).value)))

json_load_object(members) == json_load_members(members, <<>>)

json_dumps_value_truncating(val) ==
  CASE val.py = "str" ->
         [t |-> "string",
          chars |-> [j \in DOMAIN val.v |->
                       [ch |-> val.v[j], esc |-> val.v[j] \notin Ascii]]]
    [] val.py = "int" ->
         [t |-> "number", int |-> val.v, frac |-> -1, exp |-> -1]
    [] val.py = "float" ->
         [t |-> "number", int |-> val.v \div 10, frac |-> -1, exp |-> -1]
    [] val.py = "bool" ->
         [t |-> "literal", val |-> val.v]

\* ensure_ascii: a character outside ASCII is written as an escape; a float
\* is written by repr, with its fraction and without an exponent
json_dumps_value(val) ==
  CASE val.py = "str" ->
         [t |-> "string",
          chars |-> [j \in DOMAIN val.v |->
                       [ch |-> val.v[j], esc |-> val.v[j] \notin Ascii]]]
    [] val.py = "int" ->
         [t |-> "number", int |-> val.v, frac |-> -1, exp |-> -1]
    [] val.py = "float" ->
         [t |-> "number", int |-> val.v \div 10, frac |-> val.v % 10, exp |-> -1]
    [] val.py = "bool" ->
         [t |-> "literal", val |-> val.v]

json_dumps_object(d) ==
  [j \in DOMAIN d |-> [name |-> d[j].name, value |-> json_dumps_value(d[j].value)]]

(***************************************************************************)
(* The fixture directory.  A file is absent, is not JSON, holds one object *)
(* or holds an array of objects.  The program looks at a file once, when   *)
(* populate_data() reaches its entity type: files holds what it found      *)
(* there, and Unread for the files it has not looked at yet.               *)
(***************************************************************************)
Str(cs) == [t |-> "string", chars |-> [j \in DOMAIN cs |-> [ch |-> cs[j], esc |-> FALSE]]]

\* {"id": "o1", "level": 1e2}
RecordWithId ==
  << [name |-> "id", value |-> Str(<<"o", "1">>)],
     [name |-> "level", value |-> [t |-> "number", int |-> 1, frac |-> -1, exp |-> 2]] >>

\* {"name": "caf<e-acute>", "ratio": 2.5, "active": true}: no id, and a
\* character outside ASCII written raw
RecordWithoutId ==
  << [name |-> "name", value |-> Str(<<"c", "a", "f", "e-acute">>)],
     [name |-> "ratio", value |-> [t |-> "number", int |-> 2, frac |-> 5, exp |-> -1]],
     [name |-> "active", value |-> [t |-> "literal", val |-> TRUE]] >>

Records == {RecordWithId, RecordWithoutId}

Unread == [kind |-> "unread", doc |-> <<>>]
Missing == [kind |-> "missing", doc |-> <<>>]
Invalid == [kind |-> "invalid", doc |-> <<>>]
Object(r) == [kind |-> "object", doc |-> <<r>>]
Array(s) == [kind |-> "array", doc |-> s]

\* an array of n records: the two records in turn
Fixture(n) == [j \in 1..n |-> IF j % 2 = 1 THEN RecordWithId ELSE RecordWithoutId]

FileContents ==
  {Missing, Invalid} \cup {Object(r) : r \in Records}
    \cup {Array(Fixture(n)) : n \in 0..MaxPosts}

(***************************************************************************)
(* The API.  requests.post returns a response or raises (connection        *)
(* refused, timeout).                                                      *)
(***************************************************************************)
Response(code, text) == [raised |-> FALSE, status_code |-> code, text |-> text]

ConnectionError == [raised |-> TRUE, status_code |-> 0, text |-> ""]

\* what the API answers in the runs of Spec and of SpecOneFile
Responses == {Response(201, "created"), Response(400, "bad request")}

Outcomes == Responses \cup {ConnectionError}

AllResponses ==
  Responses \cup {Response(200, "ok"), Response(500, "internal server error")}

AllOutcomes == AllResponses \cup {ConnectionError}
(***************************************************************************)
(* read_json_file, create_entity's report, populate_data's choice of what  *)
(* to publish.                                                             *)
(***************************************************************************)
NoData == [type |-> "none", value |-> <<>>]

\* json.load(file) of a file that is JSON
read_json_file(content) ==
  IF content.kind = "array"
  THEN [type |-> "list",
        value |-> [j \in DOMAIN content.doc |-> json_load_object(content.doc[j])]]
  ELSE [type |-> "dict", value |-> json_load_object(content.doc[1])]

to_publish_all_but_last(d) ==
  IF d.type = "list"
  THEN SubSeq(d.value, 1, Len(d.value) - 1)
  ELSE <<d.value>>

to_publish_lists_only(d) ==
  IF d.type = "list" THEN d.value ELSE <<>>

\* if isinstance(data, list): every item, in order; else: data itself
to_publish(d) ==
  IF d.type = "list" THEN d.value ELSE <<d.value>>

\* data.get(key, default)
dict_get(d, key, default) ==
  IF \E j \in DOMAIN d : d[j].name = key
  THEN (CHOOSE m \in {d[j] : j \in DOMAIN d} : m.name = key).value
  ELSE default

NA == [py |-> "str", v |-> <<"N", "/", "A">>]

Populating(entity_type) == [line |-> "Populating", entity_type |-> entity_type]

FileNotFound(entity_type) == [line |-> "File not found", entity_type |-> entity_type]

Success(entity_type, id) ==
  [line |-> "Successfully created", entity_type |-> entity_type, id |-> id]

Failure(entity_type, id) ==
  [line |-> "Failed to create", entity_type |-> entity_type, id |-> id]

StatusCode(code) == [line |-> "Status code", status_code |-> code]

ResponseText(text) == [line |-> "Response", text |-> text]

report_any_2xx(entity_type, item, response) ==
  IF response.status_code >= 200 /\ response.status_code < 300
  THEN <<Success(entity_type, dict_get(item, "id", NA))>>
  ELSE <<Failure(entity_type, dict_get(item, "id", NA)),
         StatusCode(response.status_code),
         ResponseText(response.text)>>

\* what create_entity prints for a response
report(entity_type, item, response) ==
  IF response.status_code = 201
  THEN <<Success(entity_type, dict_get(item, "id", NA))>>
  ELSE <<Failure(entity_type, dict_get(item, "id", NA)),
         StatusCode(response.status_code),
         ResponseText(response.text)>>

request_url(entity_type) == BASE_URL \o ENTITIES[entity_type]

FileNames == DOMAIN ENTITIES \cup {creation_order[j] : j \in DOMAIN creation_order}

(***************************************************************************)
(* The program.                                                            *)
(***************************************************************************)
Init ==
  /\ pc = "main"
  /\ i = 1
  /\ data = NoData
  /\ k = 0
  /\ files = [f \in FileNames |-> Unread]
  /\ calls = <<>>
  /\ console = <<>>
  /\ error = "none"

\* populate_data returns: main's loop goes on with the next entity type
Return ==
  /\ pc' = "main"
  /\ i' = i + 1
  /\ data' = NoData
  /\ k' = 0

\* an exception nothing catches: it leaves populate_data and main, and the
\* interpreter prints the traceback and exits
Raise(exception) ==
  /\ pc' = "aborted"
  /\ error' = exception
  /\ UNCHANGED <<i, data, k>>

populate_data_without_exists_check(content) ==
  /\ pc = "main"
  /\ i \in DOMAIN creation_order
  /\ LET entity_type == creation_order[i]
     IN  /\ files' = [files EXCEPT ![entity_type] = content]
         /\ UNCHANGED calls
         /\ IF content.kind = "missing"
            THEN /\ console' = Append(console, Populating(entity_type))
                 /\ Raise("FileNotFoundError")
            ELSE IF content.kind = "invalid"
            THEN /\ console' = Append(console, Populating(entity_type))
                 /\ Raise("JSONDecodeError")
            ELSE /\ console' = Append(console, Populating(entity_type))
                 /\ UNCHANGED error
                 /\ IF to_publish(read_json_file(content)) = <<>>
                    THEN Return
                    ELSE /\ pc' = "create_entity"
                         /\ data' = read_json_file(content)
                         /\ k' = 1
                         /\ UNCHANGED i

\* One turn of main's loop up to the first create_entity: the banner, then
\* populate_data up to its loop over the loaded document.  content is what
\* ./data/<entity_type>.json holds.
populate_data(content) ==
  /\ pc = "main"
  /\ i \in DOMAIN creation_order
  /\ LET entity_type == creation_order[i]
     IN  /\ files' = [files EXCEPT ![entity_type] = content]
         /\ UNCHANGED calls
         /\ IF content.kind = "missing"
            THEN /\ console' =
                      console \o <<Populating(entity_type), FileNotFound(entity_type)>>
                 /\ UNCHANGED error
                 /\ Return
            ELSE IF content.kind = "invalid"
            THEN /\ console' = Append(console, Populating(entity_type))
                 /\ Raise("JSONDecodeError")
            ELSE /\ console' = Append(console, Populating(entity_type))
                 /\ UNCHANGED error
                 /\ IF to_publish(read_json_file(content)) = <<>>
                    THEN Return
                    ELSE /\ pc' = "create_entity"
                         /\ data' = read_json_file(content)
                         /\ k' = 1
                         /\ UNCHANGED i

create_entity_raise_for_status(outcome) ==
  /\ pc = "create_entity"
  /\ UNCHANGED files
  /\ LET entity_type == creation_order[i]
         item == to_publish(data)[k]
     IN  IF entity_type \notin DOMAIN ENTITIES
         THEN /\ Raise("KeyError")
              /\ UNCHANGED <<calls, console>>
         ELSE /\ calls' = Append(calls, [entity_type |-> entity_type,
                                         url |-> request_url(entity_type),
                                         json |-> json_dumps_object(item),
                                         headers |-> HEADERS,
                                         response |-> outcome])
              /\ IF outcome.raised
                 THEN /\ Raise("ConnectionError")
                      /\ UNCHANGED console
                 ELSE /\ console' = console \o report(entity_type, item, outcome)
                      /\ IF outcome.status_code # 201
                         THEN Raise("HTTPError")
                         ELSE /\ UNCHANGED error
                              /\ IF k < Len(to_publish(data))
                                 THEN /\ k' = k + 1
                                      /\ UNCHANGED <<pc, i, data>>
                                 ELSE Return

\* One call create_entity(entity_type, item) of populate_data, with the item
\* its loop is at, and the step of that loop.  outcome is what requests.post
\* does.
create_entity(outcome) ==
  /\ pc = "create_entity"
  /\ UNCHANGED files
  /\ LET entity_type == creation_order[i]
         item == to_publish(data)[k]
     IN  IF entity_type \notin DOMAIN ENTITIES
         THEN /\ Raise("KeyError")
              /\ UNCHANGED <<calls, console>>
         ELSE /\ calls' = Append(calls, [entity_type |-> entity_type,
                                         url |-> request_url(entity_type),
                                         json |-> json_dumps_object(item),
                                         headers |-> HEADERS,
                                         response |-> outcome])
              /\ IF outcome.raised
                 THEN /\ Raise("ConnectionError")
                      /\ UNCHANGED console
                 ELSE /\ console' = console \o report(entity_type, item, outcome)
                      /\ UNCHANGED error
                      /\ IF k < Len(to_publish(data))
                         THEN /\ k' = k + 1
                              /\ UNCHANGED <<pc, i, data>>
                         ELSE Return

\* main's loop has gone through creation_order
main_return ==
  /\ pc = "main"
  /\ i = Len(creation_order) + 1
  /\ pc' = "done"
  /\ UNCHANGED <<i, data, k, files, calls, console, error>>

(***************************************************************************)
(* The runs checked.  Spec: any fixture directory with at most MaxFiles    *)
(* files and MaxPosts records, any outcome of every POST.  SpecAll201: all *)
(* ten fixture files exist and are JSON, every POST returns 201.           *)
(* SpecOneFile: one fixture file at most, and more status codes.           *)
(***************************************************************************)
RECURSIVE SumLen(_, _)
SumLen(f, S) ==
  IF S = {} THEN 0
  ELSE LET x == CHOOSE y \in S : TRUE
       IN  Len(f[x].doc) + SumLen(f, S \ {x})

Present(f) == {x \in DOMAIN f : f[x].kind \notin {"unread", "missing"}}

Fits(content) ==
  /\ i \in DOMAIN creation_order
  /\ files[creation_order[i]] \in {Unread, content}
  /\ LET seen == [files EXCEPT ![creation_order[i]] = content]
     IN  /\ Cardinality(Present(seen)) <= MaxFiles
         /\ SumLen(seen, DOMAIN seen) <= MaxPosts

Next ==
  \/ \E content \in FileContents : Fits(content) /\ populate_data(content)
  \/ \E outcome \in Outcomes : create_entity(outcome)
  \/ main_return

Spec == Init /\ [][Next]_vars

PresentContents == {Object(RecordWithoutId), Array(Fixture(0)), Array(Fixture(2))}

NextAll201 ==
  \/ \E content \in PresentContents : populate_data(content)
  \/ create_entity(Response(201, "created"))
  \/ main_return

SpecAll201 == Init /\ [][NextAll201]_vars

FitsOneFile(content) ==
  /\ i \in DOMAIN creation_order
  /\ files[creation_order[i]] \in {Unread, content}
  /\ LET seen == [files EXCEPT ![creation_order[i]] = content]
     IN  /\ Cardinality(Present(seen)) <= 1
         /\ SumLen(seen, DOMAIN seen) <= MaxPosts

NextOneFile ==
  \/ \E content \in FileContents : FitsOneFile(content) /\ populate_data(content)
  \/ \E outcome \in AllOutcomes : create_entity(outcome)
  \/ main_return

SpecOneFile == Init /\ [][NextOneFile]_vars
(***************************************************************************)
(* What the claims speak of.                                               *)
(***************************************************************************)
EntityTypes == DOMAIN ENTITIES

\* the place of an entity type in main's loop
Index(e) == CHOOSE j \in DOMAIN creation_order : creation_order[j] = e

\* populate_data(e) has returned
Completed(e) == Index(e) < i

CallsFor(e) == SelectSeq(calls, LAMBDA c : c.entity_type = e)

\* the value a JSON text denotes: the characters of a string however they
\* are written, the magnitude of a number (in tenths) however it is written
SameValue(a, b) ==
  /\ a.t = b.t
  /\ CASE a.t = "string" ->
            /\ Len(a.chars) = Len(b.chars)
            /\ \A j \in DOMAIN a.chars : a.chars[j].ch = b.chars[j].ch
       [] a.t = "number" ->
            (10 * a.int + (IF a.frac = -1 THEN 0 ELSE a.frac)) * Pow10(a.exp)
              = (10 * b.int + (IF b.frac = -1 THEN 0 ELSE b.frac)) * Pow10(b.exp)
       [] a.t = "literal" -> a.val = b.val

\* the same fields with the same values: none renamed, added, removed or
\* coerced
SameObject(a, b) ==
  /\ Len(a) = Len(b)
  /\ {a[j].name : j \in DOMAIN a} = {b[j].name : j \in DOMAIN b}
  /\ \A j \in DOMAIN a : \A l \in DOMAIN b :
       a[j].name = b[l].name => SameValue(a[j].value, b[l].value)

\* the records of a fixture file that holds JSON
RecordsOf(e) == files[e].doc

\* the console shows this line
IsLine(l, line) == l.line = line.line /\ l = line

IsReport(l) == l.line \in {"Successfully created", "Failed to create"}

\* the calls the API answered, and the lines that report a record
Answered == SelectSeq(calls, LAMBDA c : ~c.response.raised)

Reports == SelectSeq(console, IsReport)

\* the record the j-th call of the run was made for: the calls of one
\* entity type follow its file
NthFor(j) == Len(SelectSeq(SubSeq(calls, 1, j), LAMBDA c : c.entity_type = calls[j].entity_type))

RecordOfCall(j) == RecordsOf(calls[j].entity_type)[NthFor(j)]

\* the id of a record as the fixture file spells it, "N/A" without one
IdOf(r) ==
  IF \E j \in DOMAIN r : r[j].name = "id"
  THEN LET m == CHOOSE m \in {r[j] : j \in DOMAIN r} : m.name = "id"
       IN  [j \in DOMAIN m.value.chars |-> m.value.chars[j].ch]
  ELSE <<"N", "/", "A">>

\* the place in calls of the j-th answered call
RECURSIVE AnsweredAt(_, _)
AnsweredAt(j, from) ==
  IF ~calls[from].response.raised
  THEN IF j = 1 THEN from ELSE AnsweredAt(j - 1, from + 1)
  ELSE AnsweredAt(j, from + 1)

\* the place in console of the j-th report
RECURSIVE ReportAt(_, _)
ReportAt(j, from) ==
  IF IsReport(console[from])
  THEN IF j = 1 THEN from ELSE ReportAt(j - 1, from + 1)
  ELSE ReportAt(j, from + 1)

ClaimedOrder ==
  <<"organization", "department", "permission", "role", "group", "user",
    "resourceType", "attributeGroup", "resource", "policy">>

RECURSIVE Repeat(_, _)
Repeat(x, n) == IF n = 0 THEN <<>> ELSE <<x>> \o Repeat(x, n - 1)

RECURSIVE Grouped(_)
Grouped(order) ==
  IF order = <<>> THEN <<>>
  ELSE Repeat(Head(order), Len(RecordsOf(Head(order)))) \o Grouped(Tail(order))

(***************************************************************************)
(* C1.  With all ten fixture files present and 201 for every POST, the     *)
(* POSTs come grouped by entity type in the order organization,            *)
(* department, permission, role, group, user, resourceType,                *)
(* attributeGroup, resource, policy: at every moment the entity types of   *)
(* the calls made are a prefix of that grouping, at the end they are the   *)
(* whole of it, and every call made has its success line.                  *)
(***************************************************************************)
ClaimedPlace(e) == CHOOSE x \in DOMAIN ClaimedOrder : ClaimedOrder[x] = e

C1_GroupedInCreationOrder ==
  /\ \A a \in DOMAIN calls :
       /\ calls[a].entity_type \in {ClaimedOrder[x] : x \in DOMAIN ClaimedOrder}
       /\ a < Len(calls) =>
            ClaimedPlace(calls[a].entity_type) <= ClaimedPlace(calls[a + 1].entity_type)
  /\ pc = "done" => [j \in DOMAIN calls |-> calls[j].entity_type] = Grouped(ClaimedOrder)
  /\ pc \in {"main", "done"} =>
       /\ Len(Reports) = Len(calls)
       /\ \A j \in DOMAIN Reports :
            /\ Reports[j].line = "Successfully created"
            /\ Reports[j].entity_type = calls[j].entity_type

C1_Witness ==
  /\ pc = "done"
  /\ \A e \in EntityTypes : files[e].kind \in {"object", "array"}
  /\ \E e \in EntityTypes : Len(RecordsOf(e)) = 2
  /\ Len(calls) >= 10

(***************************************************************************)
(* C2.  A fixture file that holds an array of N records gets exactly N     *)
(* POSTs for its entity type, the j-th carrying the j-th element: never    *)
(* more than N, each in its place, and all N once populate_data has        *)
(* returned, whatever the status codes.                                    *)
(***************************************************************************)
C2_ArrayPostedOnceInOrder ==
  \A e \in EntityTypes :
    files[e].kind = "array" =>
      /\ Len(CallsFor(e)) <= Len(RecordsOf(e))
      /\ \A j \in DOMAIN CallsFor(e) : SameObject(CallsFor(e)[j].json, RecordsOf(e)[j])
      /\ Completed(e) => Len(CallsFor(e)) = Len(RecordsOf(e))

C2_Witness ==
  /\ pc = "done"
  /\ \E e \in EntityTypes :
       /\ files[e].kind = "array"
       /\ Len(RecordsOf(e)) = 2
       /\ Len(CallsFor(e)) = 2
       /\ CallsFor(e)[1].response.status_code = 400
  /\ \E e \in EntityTypes : files[e] = Array(<<>>)

(***************************************************************************)
(* C3.  A fixture file that holds a single JSON object gets exactly one    *)
(* POST for its entity type, carrying that object.                         *)
(***************************************************************************)
C3_ObjectPostedOnce ==
  \A e \in EntityTypes :
    files[e].kind = "object" =>
      /\ Len(CallsFor(e)) <= 1
      /\ \A j \in DOMAIN CallsFor(e) : SameObject(CallsFor(e)[j].json, RecordsOf(e)[1])
      /\ Completed(e) => Len(CallsFor(e)) = 1

C3_Witness ==
  /\ pc = "done"
  /\ \E e \in EntityTypes : files[e].kind = "object" /\ Len(CallsFor(e)) = 1

(***************************************************************************)
(* C4.  An entity type whose fixture file does not exist gets no POST and  *)
(* no error, only the skip notice, printed once, and the driver goes on    *)
(* with the next entity type.                                              *)
(***************************************************************************)
C4_MissingFileSkipped ==
  LET notices == SelectSeq(console, LAMBDA l : l.line = "File not found")
  IN  \A e \in EntityTypes :
        files[e].kind = "missing" =>
          /\ \A j \in DOMAIN calls : calls[j].entity_type # e
          /\ Cardinality({j \in DOMAIN notices : notices[j] = FileNotFound(e)}) = 1
          /\ Completed(e)
          /\ pc = "aborted" => creation_order[i] # e

C4_Witness ==
  /\ pc = "done"
  /\ \E e \in EntityTypes :
       /\ files[e].kind = "missing"
       /\ \E j \in DOMAIN calls : Index(calls[j].entity_type) > Index(e)

(***************************************************************************)
(* C5.  A record the API answers with another status than 201 is reported  *)
(* as failed, with the status code and the response body, and the run goes *)
(* on as after a success: the report does not end the process, the rest of *)
(* the same file is published, and so is every later entity type.          *)
(***************************************************************************)
C5_FailureReportedAndRunGoesOn ==
  /\ Len(Reports) = Len(Answered)
  /\ \A j \in DOMAIN Answered :
       Answered[j].response.status_code # 201 =>
         LET at == ReportAt(j, 1)
         IN  /\ console[at].line = "Failed to create"
             /\ console[at].entity_type = Answered[j].entity_type
             /\ at + 2 <= Len(console)
             /\ IsLine(console[at + 1], StatusCode(Answered[j].response.status_code))
             /\ IsLine(console[at + 2], ResponseText(Answered[j].response.text))
  /\ (/\ console # <<>>
      /\ console[Len(console)].line = "Response"
      /\ ~calls[Len(calls)].response.raised) => pc # "aborted"
  /\ \A e \in EntityTypes :
       (/\ files[e].kind \in {"object", "array"}
        /\ Completed(e)
        /\ \E j \in DOMAIN calls :
             /\ ~calls[j].response.raised
             /\ calls[j].response.status_code # 201
             /\ Index(calls[j].entity_type) <= Index(e))
       => Len(CallsFor(e)) = Len(RecordsOf(e))

C5_Witness ==
  /\ pc = "done"
  /\ Len(calls) = 2
  /\ calls[1].response.status_code = 400
  /\ calls[2].response.status_code = 201
  /\ calls[1].entity_type # calls[2].entity_type

(***************************************************************************)
(* C6.  A transport-level failure of a POST never aborts the run.  The     *)
(* code lets the exception of requests.post leave main.                    *)
(***************************************************************************)
C6_TransportErrorNeverAborts ==
  \A j \in DOMAIN calls : calls[j].response.raised => pc # "aborted"

(***************************************************************************)
(* C7.  A fixture file that is not valid JSON aborts only its own batch:   *)
(* no POST for its entity type, and the run goes on with the later entity  *)
(* types.  The code lets the exception of json.load leave main.            *)
(***************************************************************************)
C7_ParseErrorAbortsOnlyItsBatch ==
  \A e \in EntityTypes :
    files[e].kind = "invalid" => CallsFor(e) = <<>> /\ pc # "aborted"

(***************************************************************************)
(* C8.  For every POST that is answered, create_entity reports success if  *)
(* and only if the status code is exactly 201, with the id of the record   *)
(* or N/A when it has none; any other status code, 200 included, is        *)
(* reported as a failure, followed by the status code and the raw body.    *)
(***************************************************************************)
C8_SuccessIffCreated ==
  /\ Len(Reports) = Len(Answered)
  /\ \A j \in DOMAIN Answered :
       LET at == ReportAt(j, 1)
           call == AnsweredAt(j, 1)
           answer == Answered[j].response
       IN  /\ console[at].line = "Successfully created" <=> answer.status_code = 201
           /\ console[at].entity_type = Answered[j].entity_type
           /\ console[at].id.py = "str"
           /\ console[at].id.v = IdOf(RecordOfCall(call))
           /\ answer.status_code # 201 =>
                /\ at + 2 <= Len(console)
                /\ IsLine(console[at + 1], StatusCode(answer.status_code))
                /\ IsLine(console[at + 2], ResponseText(answer.text))
  /\ Len(SelectSeq(console, LAMBDA l : l.line = "Status code"))
       = Len(SelectSeq(Answered, LAMBDA c : c.response.status_code # 201))
  /\ Len(SelectSeq(console, LAMBDA l : l.line = "Response"))
       = Len(SelectSeq(Answered, LAMBDA c : c.response.status_code # 201))

C8_Witness ==
  /\ Len(Answered) = 2
  /\ Answered[1].response.status_code = 200
  /\ Answered[2].response.status_code = 201
  /\ IdOf(RecordOfCall(2)) = <<"N", "/", "A">>
  /\ Len(Reports) = 2

C10_OrderIsPermutationOfEntities ==
  LET banners == SelectSeq(console, LAMBDA l : l.line = "Populating")
      populated == {banners[j].entity_type : j \in DOMAIN banners}
  IN  /\ Len(creation_order) = Cardinality(DOMAIN ENTITIES)
      /\ {creation_order[j] : j \in DOMAIN creation_order} = DOMAIN ENTITIES
      /\ error # "KeyError"
      /\ pc = "create_entity" => creation_order[i] \in DOMAIN ENTITIES
      /\ Cardinality(populated) = Len(banners)
      /\ populated \subseteq DOMAIN ENTITIES
      /\ pc = "done" => populated = DOMAIN ENTITIES

C10_Witness ==
  /\ pc = "done"
  /\ Cardinality({calls[j].entity_type : j \in DOMAIN calls}) = 2

====
